---- MODULE Spec2Model ----
(***************************************************************************)
(* ValutaTrade Hub: the rate resolution engine                             *)
(* (TradingService.get_exchange_rate), the update orchestrator             *)
(* (RatesUpdater.run_update), the two provider clients and the rate cache  *)
(* store (RatesStorage / DatabaseManager), as a state machine.             *)
(*                                                                         *)
(* Spec runs get_exchange_rate calls, UpdaterSpec run_update calls under   *)
(* every source filter, HubSpec both in any order, each call atomic at the *)
(* level of the files; SaveSpec runs concurrent save_rates calls and loads *)
(* one system call at a time.  CaseSpec calls get_exchange_rate with       *)
(* codes in either case, DirSpec under a configured data directory,        *)
(* RaceSpec from processes running at the same time.  TradeSpec runs the   *)
(* account, trading and portfolio commands (UserManager,                   *)
(* TradingService.buy_currency / sell_currency,                            *)
(* Portfolio.get_total_value), each command atomic.                        *)
(*                                                                         *)
(* Representation.  A rate (a Python float) is an exact fraction <<n, d>>  *)
(* in lowest terms, d > 0; None is <<0, 0>>.  A datetime is a number of    *)
(* seconds; isoformat()/fromisoformat() keep it unchanged, a missing or    *)
(* null "updated_at" is NoTs.  A pair key "FROM_TO" is the tuple           *)
(* <<FROM, TO>>.  An amount or a balance is a whole number, or NaN.        *)
(***************************************************************************)
EXTENDS Integers, Sequences, FiniteSets, TLC

VARIABLES
    now,         \* datetime.now(), in seconds
    rates_file,  \* data/rates.json
    history,     \* data/exchange_rates.json, the list of records
    pc,          \* position of the running get_exchange_rate call
    req,         \* its arguments
    res,         \* what the last finished get_exchange_rate call gave its caller
    cand,        \* what the call's latest _get_cached_rate returned
    look,        \* what the call's first _get_cached_rate returned
    nLookups,    \* _get_cached_rate calls (one db.load_rates each) made by the call
    nRefresh,    \* run_update calls made by the call
    file0,       \* rates_file when the call started
    hist0,       \* history when the call started
    upd,         \* what the last run_update returned and did
    ncalls,      \* operations started so far
    data_dir,    \* settings.get("data_dir"): the directory DatabaseManager reads
    dir_file,    \* rates.json in data_dir, when data_dir is not "data"
    calls,       \* get_exchange_rate calls of processes running at the same time
    nRuns,       \* run_update calls those processes have made
    users,       \* users.json: the list of user records
    portfolios,  \* portfolios.json: the list of portfolio records
    current_user, \* user_id of UserManager.current_user and session.json, NoUser when logged out
    out,         \* what the last account, trading or portfolio command returned
    fs           \* the directory of rates.json seen step by step: the two names,
                 \* the files behind them, the processes inside save_rates and
                 \* what the latest load read

vars == <<now, rates_file, history, pc, req, res, cand, look, nLookups, nRefresh,
          file0, hist0, upd, ncalls, data_dir,
          dir_file,
          calls,
          nRuns,
          users,
          portfolios,
          current_user,
          out, fs>>

----------------------------------------------------------------------------
(* Bounds of the model *)

Now0 == 1000          \* the clock when the program starts
MaxElapsed == 300     \* seconds the clock may advance
MaxCalls == 2         \* operations in one run
NSavers == 2          \* processes that may be inside save_rates at the same time
NChunks == 2         \* write() calls that carry one snapshot to the file
NProcs == 2          \* processes calling get_exchange_rate at the same time
MaxTrades == 3       \* account, trading and portfolio commands in one run

(* Program constants *)

TTL == 300            \* settings "rates_ttl_seconds"

BASE_CURRENCY == "USD"           \* ParserConfig.BASE_CURRENCY
DefaultBaseCurrency == "USD"     \* settings "default_base_currency"

----------------------------------------------------------------------------
(* Floats as fractions *)

NoneRate == <<0, 0>>
NoTs == -1

RECURSIVE Gcd(_, _)
Gcd(a, b) == IF b = 0 THEN a ELSE Gcd(b, a % b)

Frac(n, d) == LET g == Gcd(n, d) IN <<n \div g, d \div g>>

One == <<1, 1>>

\* Python's truth value of a rate: None and 0.0 are false
Truthy(r) == r[1] # 0

\* a / b for two non-zero floats
Div(a, b) == Frac(a[1] * b[2], a[2] * b[1])

\* a * b for two floats
Mul(a, b) == Frac(a[1] * b[1], a[2] * b[2])

----------------------------------------------------------------------------
(* Currency registry *)

Registry == {"USD", "EUR", "GBP", "JPY", "CHF", "RUB", "BTC", "ETH", "LTC", "ADA"}

\* str.upper() on the codes the model uses
Upper(c) ==
    CASE c = "eur" -> "EUR"
      [] c = "usd" -> "USD"
      [] c = "xxx" -> "XXX"
      [] OTHER -> c

\* get_currency: "ok", or the code CurrencyNotFoundError carries
GetCurrency(code) ==
    IF Upper(code) \in Registry
    THEN [found |-> TRUE, code |-> Upper(code)]
    ELSE [found |-> FALSE, code |-> Upper(code)]

----------------------------------------------------------------------------
(* Rate cache store *)

NoPairs == [k \in {} |-> 0]

Missing == [kind |-> "missing", pairs |-> NoPairs, last_refresh |-> NoTs]
Corrupt == [kind |-> "corrupt", pairs |-> NoPairs, last_refresh |-> NoTs]
\* a file whose bytes are not UTF-8 text
Undecodable == [kind |-> "undecodable", pairs |-> NoPairs, last_refresh |-> NoTs]

\* what open(..., encoding="utf-8") and json.load raise past the loaders'
\* "except (FileNotFoundError, json.JSONDecodeError)"; "none" when they return
LoadExc(file) == IF file.kind = "undecodable" THEN "UnicodeDecodeError" ELSE "none"

Key(from_currency, to_currency) == <<from_currency, to_currency>>

\* DatabaseManager.load_rates followed by rates.get("pairs", {})
DbLoadPairs(file) ==
    IF file.kind = "snapshot" THEN file.pairs ELSE NoPairs

\* RatesStorage.load_rates
StorageLoadRates(file) ==
    IF file.kind = "snapshot"
    THEN [pairs |-> file.pairs, last_refresh |-> file.last_refresh]
    ELSE [pairs |-> NoPairs, last_refresh |-> NoTs]

\* the rates.json DatabaseManager._get_file_path names: RatesStorage's file
\* "data/rates.json" only when data_dir is "data"
DbFile == IF data_dir = "data" THEN rates_file ELSE dir_file

----------------------------------------------------------------------------
(* Rate resolution engine: the lookup *)

Cand(exc, rate, ts, via) == [exc |-> exc, rate |-> rate, ts |-> ts, via |-> via]

NoCand == Cand("none", NoneRate, NoTs, "none")

\* the currency the cross rate goes through (the literal of usecases.py)
TriBaseVia == "EUR"
TriBase == "USD"

\* datetime.fromisoformat(rate_data["updated_at"]): KeyError when the key is missing
HasTs(entry) == entry.updated_at # NoTs

DirectMutant(pairs, from_currency, to_currency, nowv) ==
    LET e == pairs[Key(from_currency, to_currency)]
    IN  IF ~HasTs(e) THEN Cand("KeyError", NoneRate, NoTs, "direct")
        ELSE Cand("none", e.rate, nowv, "direct")
Direct(pairs, from_currency, to_currency, nowv) ==
    LET e == pairs[Key(from_currency, to_currency)]
    IN  IF ~HasTs(e) THEN Cand("KeyError", NoneRate, NoTs, "direct")
        ELSE Cand("none", e.rate, e.updated_at, "direct")

InverseMutant(pairs, from_currency, to_currency) ==
    LET e == pairs[Key(to_currency, from_currency)]
    IN  IF ~HasTs(e) THEN Cand("KeyError", NoneRate, NoTs, "inverse")
        ELSE IF e.rate = NoneRate THEN Cand("TypeError", NoneRate, NoTs, "inverse")
        ELSE IF ~Truthy(e.rate) THEN Cand("ZeroDivisionError", NoneRate, NoTs, "inverse")
        ELSE Cand("none", e.rate, e.updated_at, "inverse")
Inverse(pairs, from_currency, to_currency) ==
    LET e == pairs[Key(to_currency, from_currency)]
    IN  IF ~HasTs(e) THEN Cand("KeyError", NoneRate, NoTs, "inverse")
        ELSE IF e.rate = NoneRate THEN Cand("TypeError", NoneRate, NoTs, "inverse")
        ELSE IF ~Truthy(e.rate) THEN Cand("ZeroDivisionError", NoneRate, NoTs, "inverse")
        ELSE Cand("none", Div(One, e.rate), e.updated_at, "inverse")

\* pairs[k].get("rate") when k is cached, else None
LegRate(pairs, k) == IF k \in DOMAIN pairs THEN pairs[k].rate ELSE NoneRate

TriangulateMutant(pairs, from_currency, to_currency, nowv) ==
    IF from_currency # TriBase /\ to_currency # TriBase
    THEN LET usd_to_from == LegRate(pairs, Key(from_currency, TriBase))
             usd_to_to == LegRate(pairs, Key(to_currency, TriBase))
         IN  IF Truthy(usd_to_from) /\ Truthy(usd_to_to)
             THEN Cand("none", Div(usd_to_from, usd_to_to), nowv, "triangulated")
             ELSE NoCand
    ELSE NoCand
Triangulate(pairs, from_currency, to_currency, nowv) ==
    IF from_currency # TriBase /\ to_currency # TriBase
    THEN LET usd_to_from == LegRate(pairs, Key(from_currency, TriBase))
             usd_to_to == LegRate(pairs, Key(to_currency, TriBase))
         IN  IF Truthy(usd_to_from) /\ Truthy(usd_to_to)
             THEN Cand("none", Div(usd_to_to, usd_to_from), nowv, "triangulated")
             ELSE NoCand
    ELSE NoCand

\* TradingService._get_cached_rate
GetCachedRateMutant(file, from_currency, to_currency, nowv) ==
    LET pairs == DbLoadPairs(file)
    IN  IF LoadExc(file) # "none"
        THEN Cand(LoadExc(file), NoneRate, NoTs, "none")
        ELSE IF Key(to_currency, from_currency) \in DOMAIN pairs
        THEN Inverse(pairs, from_currency, to_currency)
        ELSE IF Key(from_currency, to_currency) \in DOMAIN pairs
        THEN Direct(pairs, from_currency, to_currency, nowv)
        ELSE Triangulate(pairs, from_currency, to_currency, nowv)
GetCachedRate(file, from_currency, to_currency, nowv) ==
    LET pairs == DbLoadPairs(file)
    IN  IF LoadExc(file) # "none"
        THEN Cand(LoadExc(file), NoneRate, NoTs, "none")
        ELSE IF Key(from_currency, to_currency) \in DOMAIN pairs
        THEN Direct(pairs, from_currency, to_currency, nowv)
        ELSE IF Key(to_currency, from_currency) \in DOMAIN pairs
        THEN Inverse(pairs, from_currency, to_currency)
        ELSE Triangulate(pairs, from_currency, to_currency, nowv)

\* TradingService._is_rate_fresh
IsRateFreshMutant(updated_at, nowv) == nowv - updated_at <= TTL
IsRateFresh(updated_at, nowv) == nowv - updated_at < TTL

\* "rate and updated_at" of get_exchange_rate
Usable(c) == c.exc = "none" /\ Truthy(c.rate) /\ c.ts # NoTs

----------------------------------------------------------------------------
(* Provider clients *)

CRYPTO_CURRENCIES == <<"BTC", "ETH", "LTC", "ADA">>
FIAT_CURRENCIES == <<"EUR", "GBP", "JPY", "CHF", "CAD", "AUD", "RUB">>

CRYPTO_ID_MAP(code) ==
    CASE code = "BTC" -> "bitcoin"
      [] code = "ETH" -> "ethereum"
      [] code = "LTC" -> "litecoin"
      [] code = "ADA" -> "cardano"
      [] OTHER -> "None"

\* what a provider call gives: the exception it raises ("none" when it returns)
\* and the rates it returns, in the order the dict holds them
Fetched(exc, rates) == [exc |-> exc, rates |-> rates]

\* rates[f"{code}_{BASE}"] = float(data[id]["usd"]) for the configured codes present
CryptoRow(data, code) == <<Key(code, BASE_CURRENCY), data[CRYPTO_ID_MAP(code)]>>
FiatRow(conversion_rates, code) == <<Key(code, BASE_CURRENCY), conversion_rates[code]>>

RECURSIVE MapSeq(_, _, _)
MapSeq(codes, data, crypto) ==
    IF codes = <<>> THEN <<>>
    ELSE LET c == Head(codes)
             id == IF crypto THEN CRYPTO_ID_MAP(c) ELSE c
             rest == MapSeq(Tail(codes), data, crypto)
         IN  IF id \in DOMAIN data
             THEN <<IF crypto THEN CryptoRow(data, c) ELSE FiatRow(data, c)>> \o rest
             ELSE rest

\* CoinGeckoClient.fetch_rates on a response of the aggregator
CoinGeckoFetch(resp) ==
    IF resp.kind = "ok" THEN Fetched("none", MapSeq(CRYPTO_CURRENCIES, resp.data, TRUE))
    ELSE Fetched("ApiRequestError", <<>>)

\* ExchangeRateApiClient._get_demo_rates
DemoRates ==
    << <<Key("EUR", "USD"), Frac(10786, 10000)>>,
       <<Key("GBP", "USD"), Frac(12593, 10000)>>,
       <<Key("JPY", "USD"), Frac(67, 10000)>>,
       <<Key("CHF", "USD"), Frac(11150, 10000)>>,
       <<Key("RUB", "USD"), Frac(1016, 100000)>> >>

\* ExchangeRateApiClient.fetch_rates on a response of the conversion-table API.
\* A JSON body that is no object has no .get: the AttributeError of line 87 is
\* none of the exceptions the method catches.
ExchangeRateFetch(resp) ==
    IF resp.kind = "success"
    THEN Fetched("none", MapSeq(FIAT_CURRENCIES, resp.data, FALSE))
    ELSE IF resp.kind = "notobject"
    THEN Fetched("AttributeError", <<>>)
    ELSE Fetched("none", DemoRates)

\* the responses the environment may give: "error" is every response the client
\* does not accept (a transport failure, a bad status, an unparsable or refused
\* payload), "notobject" a status 200 whose JSON body is a list
NoData == [k \in {} |-> One]

CryptoResponses ==
    { [kind |-> "error", data |-> NoData],
      [kind |-> "ok", data |-> NoData],
      [kind |-> "ok", data |-> [k \in {"bitcoin"} |-> Frac(60000, 1)]] }

FiatResponses ==
    { [kind |-> "error", data |-> NoData],
      [kind |-> "notobject", data |-> NoData],
      [kind |-> "success", data |-> NoData],
      [kind |-> "success", data |-> [k \in {"EUR", "USD"} |->
                                       IF k = "EUR" THEN Frac(1, 2) ELSE One]] }

----------------------------------------------------------------------------
(* Rate cache store: writes *)

\* one record of RatesStorage.save_historical_rate
HistoryRecord(pair, rate, source, meta, nowv) ==
    [id |-> <<pair, nowv>>, from_currency |-> pair[1], to_currency |-> pair[2],
     rate |-> rate, timestamp |-> nowv, source |-> source, meta |-> meta]

\* lines 61-79: the loaded list with the record appended is written back
RewriteMutant(hist, record) == <<record>>

Rewrite(hist, record) == Append(hist, record)

\* the loop "for pair, rate in rates.items(): save_historical_rate(...)"
RECURSIVE AppendAll(_, _, _, _, _)
AppendAll(hist, rates, source, crypto, nowv) ==
    IF rates = <<>> THEN hist
    ELSE LET pair == Head(rates)[1]
             meta == IF crypto THEN CRYPTO_ID_MAP(pair[1]) ELSE "{}"
         IN  AppendAll(Rewrite(hist, HistoryRecord(pair, Head(rates)[2], source, meta, nowv)),
                       Tail(rates), source, crypto, nowv)

\* dict.update: the keys of both, the second one's value on a collision
KeysOf(rates) == {rates[i][1] : i \in DOMAIN rates}
RateOf(rates, k) == (CHOOSE i \in DOMAIN rates : rates[i][1] = k)
Merge(first, second) ==
    [k \in KeysOf(first) \cup KeysOf(second) |->
        IF k \in KeysOf(second) THEN second[RateOf(second, k)][2]
        ELSE first[RateOf(first, k)][2]]

\* RatesStorage.save_rates: a fresh snapshot replaces the file
SaveRatesMutant(all_rates, source, nowv) ==
    LET old == DbLoadPairs(rates_file)
    IN  [kind |-> "snapshot",
         pairs |-> [k \in DOMAIN old \cup DOMAIN all_rates |->
                      IF k \in DOMAIN all_rates
                      THEN [rate |-> all_rates[k], updated_at |-> nowv, source |-> source]
                      ELSE old[k]],
         last_refresh |-> nowv]

SaveRatesKeepStamp(all_rates, source, nowv) ==
    LET old == DbLoadPairs(rates_file)
    IN  [kind |-> "snapshot",
         pairs |-> [k \in DOMAIN all_rates |->
                      [rate |-> all_rates[k],
                       updated_at |-> IF k \in DOMAIN old THEN old[k].updated_at ELSE nowv,
                       source |-> source]],
         last_refresh |-> nowv]

SaveRates(all_rates, source, nowv) ==
    [kind |-> "snapshot",
     pairs |-> [k \in DOMAIN all_rates |->
                  [rate |-> all_rates[k], updated_at |-> nowv, source |-> source]],
     last_refresh |-> nowv]

----------------------------------------------------------------------------
(* Update orchestrator *)

NoUpdate == [exc |-> "none", rates |-> NoPairs, saved |-> FALSE,
             crypto_called |-> FALSE, fiat_called |-> FALSE,
             crypto |-> Fetched("skipped", <<>>), fiat |-> Fetched("skipped", <<>>),
             crypto_resp |-> "", fiat_resp |-> "",
             source |-> "", file |-> Missing, hist |-> <<>>]

\* the exceptions of a provider call that run_update catches, logs and skips
ProviderErrorsMutant == {}

ProviderErrors == {"ApiRequestError"}

\* "if source is None or source == <provider>"
SelectsMutant(source, provider) == TRUE

Selects(source, provider) == source = "None" \/ source = provider

\* RatesUpdater.run_update(source) against the two providers' responses:
\* what it returns (rates) or raises (exc), what each provider call was
\* answered (crypto_resp, fiat_resp) and gave (crypto, fiat), and the two files after it
RunUpdate(source, cresp, fresp, file, hist, nowv) ==
    LET do_crypto == Selects(source, "coingecko")
        do_fiat == Selects(source, "exchangerate")
        c == IF do_crypto THEN CoinGeckoFetch(cresp) ELSE Fetched("skipped", <<>>)
        c_rates == IF c.exc = "none" THEN c.rates ELSE <<>>
        hist1 == AppendAll(hist, c_rates, "CoinGecko", TRUE, nowv)
        c_fatal == c.exc \notin {"none", "skipped"} \cup ProviderErrors
        f == IF do_fiat /\ ~c_fatal THEN ExchangeRateFetch(fresp) ELSE Fetched("skipped", <<>>)
        f_rates == IF f.exc = "none" THEN f.rates ELSE <<>>
        hist2 == AppendAll(hist1, f_rates, "ExchangeRate-API", FALSE, nowv)
        f_fatal == f.exc \notin {"none", "skipped"} \cup ProviderErrors
        all_rates == Merge(c_rates, f_rates)
        source_str == IF source = "None" THEN "all" ELSE source
        save == ~c_fatal /\ ~f_fatal /\ DOMAIN all_rates # {}
    IN  [exc |-> IF c_fatal THEN c.exc ELSE IF f_fatal THEN f.exc ELSE "none",
         rates |-> IF c_fatal \/ f_fatal THEN NoPairs ELSE all_rates,
         saved |-> save,
         crypto_called |-> do_crypto,
         fiat_called |-> do_fiat /\ ~c_fatal,
         crypto |-> c,
         fiat |-> f,
         crypto_resp |-> IF do_crypto THEN cresp.kind ELSE "",
         fiat_resp |-> IF do_fiat /\ ~c_fatal THEN fresp.kind ELSE "",
         source |-> source,
         file |-> IF save THEN SaveRates(all_rates, source_str, nowv) ELSE file,
         hist |-> hist2]

----------------------------------------------------------------------------
(* Rate resolution engine: get_exchange_rate *)

Result(kind, rate, ts, code) == [kind |-> kind, rate |-> rate, ts |-> ts, code |-> code]

NoResult == Result("none", NoneRate, NoTs, "")
NoReq == [from |-> "", to |-> ""]

\* the two get_currency calls that open get_exchange_rate: the code of the
\* CurrencyNotFoundError raised, "" when both are registered
ValidateMutant(from_currency, to_currency) ==
    IF ~GetCurrency(from_currency).found THEN GetCurrency(from_currency).code
    ELSE ""
Validate(from_currency, to_currency) ==
    IF ~GetCurrency(from_currency).found THEN GetCurrency(from_currency).code
    ELSE IF ~GetCurrency(to_currency).found THEN GetCurrency(to_currency).code
    ELSE ""

\* "if rate and updated_at and self._is_rate_fresh(updated_at)"
ReturnsCached(c, nowv) == Usable(c) /\ IsRateFresh(c.ts, nowv)

\* "if rate and updated_at" after the update
ReturnsAfterUpdate(c, nowv) == Usable(c)

\* lines 251-252: still nothing usable after the update: the call raises and ends
AfterRetryMutant == "refresh"
AfterRetry == "idle"

\* a new operation starts: the locals of the finished one are gone
Fresh(f, t) ==
    /\ req' = [from |-> f, to |-> t]
    /\ cand' = NoCand
    /\ look' = NoCand
    /\ nLookups' = 0
    /\ nRefresh' = 0
    /\ file0' = rates_file
    /\ hist0' = history
    /\ ncalls' = ncalls + 1

\* get_exchange_rate is called: lines 226-231
GetRateBegin(f, t) ==
    /\ pc = "idle"
    /\ ncalls < MaxCalls
    /\ Fresh(f, t)
    /\ upd' = NoUpdate
    /\ IF Validate(f, t) # ""
       THEN /\ res' = Result("CurrencyNotFoundError", NoneRate, NoTs, Validate(f, t))
            /\ pc' = "idle"
       ELSE /\ res' = NoResult
            /\ pc' = "lookup"
    /\ UNCHANGED <<fs, out, current_user, portfolios, users, nRuns, calls, dir_file, data_dir, now, rates_file, history>>

\* lines 233-237: the first lookup and the freshness test
Lookup ==
    /\ pc = "lookup"
    /\ LET c == GetCachedRate(DbFile, req.from, req.to, now)
       IN  /\ cand' = c
           /\ look' = c
           /\ nLookups' = nLookups + 1
           /\ IF c.exc # "none"
              THEN res' = Result(c.exc, NoneRate, NoTs, "") /\ pc' = "idle"
              ELSE IF ReturnsCached(c, now)
              THEN res' = Result("ok", c.rate, c.ts, "") /\ pc' = "idle"
              ELSE res' = NoResult /\ pc' = "refresh"
    /\ UNCHANGED <<fs, out, current_user, portfolios, users, nRuns, calls, dir_file, data_dir, now, rates_file, history, req, nRefresh, file0, hist0, upd, ncalls>>

\* lines 239-244: run_update() with no source filter
Refresh ==
    /\ pc = "refresh"
    /\ nRefresh < 3
    /\ \E cresp \in CryptoResponses, fresp \in FiatResponses :
         LET u == RunUpdate("None", cresp, fresp, rates_file, history, now)
         IN  /\ rates_file' = u.file
             /\ history' = u.hist
             /\ upd' = u
             /\ nRefresh' = nRefresh + 1
             /\ IF u.exc # "none"
                THEN res' = Result("ApiRequestError", NoneRate, NoTs, "") /\ pc' = "idle"
                ELSE res' = NoResult /\ pc' = "retry"
    /\ UNCHANGED <<fs, out, current_user, portfolios, users, nRuns, calls, dir_file, data_dir, now, req, cand, look, nLookups, file0, hist0, ncalls>>

\* lines 246-258: the lookup after the update; every exception becomes ApiRequestError
Retry ==
    /\ pc = "retry"
    /\ LET c == GetCachedRate(DbFile, req.from, req.to, now)
       IN  /\ cand' = c
           /\ nLookups' = nLookups + 1
           /\ IF c.exc = "none" /\ ReturnsAfterUpdate(c, now)
              THEN res' = Result("ok", c.rate, c.ts, "") /\ pc' = "idle"
              ELSE IF c.exc # "none" \/ AfterRetry = "idle"
              THEN res' = Result("ApiRequestError", NoneRate, NoTs, "") /\ pc' = "idle"
              ELSE res' = NoResult /\ pc' = AfterRetry
    /\ UNCHANGED <<fs, out, current_user, portfolios, users, nRuns, calls, dir_file, data_dir, now, rates_file, history, req, look, nRefresh, file0, hist0, upd, ncalls>>

\* the update-rates command: run_update(args.source)
UpdateRates(source) ==
    /\ pc = "idle"
    /\ ncalls < MaxCalls
    /\ \E cresp \in CryptoResponses, fresp \in FiatResponses :
         LET u == RunUpdate(source, cresp, fresp, rates_file, history, now)
         IN  /\ rates_file' = u.file
             /\ history' = u.hist
             /\ Fresh(NoReq.from, NoReq.to)
             /\ upd' = u
    /\ res' = NoResult
    /\ UNCHANGED <<fs, out, current_user, portfolios, users, nRuns, calls, dir_file, data_dir, now, pc>>

\* time passes between two operations
TickSteps == {TTL - 1, TTL}

Tick(d) ==
    /\ pc = "idle"
    /\ now + d <= Now0 + MaxElapsed
    /\ now' = now + d
    /\ req' = NoReq /\ res' = NoResult /\ cand' = NoCand /\ look' = NoCand
    /\ nLookups' = 0 /\ nRefresh' = 0
    /\ file0' = rates_file /\ hist0' = history /\ upd' = NoUpdate
    /\ UNCHANGED <<fs, out, current_user, portfolios, users, nRuns, calls, dir_file, data_dir, rates_file, history, pc, ncalls>>

----------------------------------------------------------------------------
(* get_exchange_rate called by processes running at the same time *)

Procs == 1 .. NProcs

\* seen: the run_update calls made so far when the call's first lookup ran;
\* stale: that lookup gave nothing fresh; ran: the run_update calls of this call
NoCall == [pc |-> "idle", req |-> NoReq, res |-> NoResult, seen |-> 0,
           stale |-> FALSE, ran |-> 0]

\* line 243: run_update() runs whatever other calls have done meanwhile
RunsOwnUpdateMutant(p) == \A q \in Procs \ {p} : calls[q].ran = 0
RunsOwnUpdate(p) == TRUE

RaceIdle ==
    /\ UNCHANGED <<fs, out, current_user, portfolios, users, dir_file, data_dir, now, pc, req, res, cand, look, nLookups>>
    /\ UNCHANGED <<nRefresh, file0, hist0, ncalls>>

\* lines 226-231 in process p
RaceBegin(p, f, t) ==
    /\ calls[p] = NoCall
    /\ calls' = [calls EXCEPT ![p] =
          IF Validate(f, t) # ""
          THEN [NoCall EXCEPT !.req = [from |-> f, to |-> t],
                              !.res = Result("CurrencyNotFoundError", NoneRate, NoTs, Validate(f, t))]
          ELSE [NoCall EXCEPT !.req = [from |-> f, to |-> t], !.pc = "lookup"]]
    /\ UNCHANGED <<rates_file, history, upd, nRuns>>
    /\ RaceIdle

\* lines 233-237 in process p
RaceLookup(p) ==
    /\ calls[p].pc = "lookup"
    /\ LET c == GetCachedRate(DbFile, calls[p].req.from, calls[p].req.to, now)
       IN  calls' = [calls EXCEPT ![p] =
             IF c.exc # "none"
             THEN [@ EXCEPT !.res = Result(c.exc, NoneRate, NoTs, ""), !.pc = "idle", !.seen = nRuns]
             ELSE IF ReturnsCached(c, now)
             THEN [@ EXCEPT !.res = Result("ok", c.rate, c.ts, ""), !.pc = "idle", !.seen = nRuns]
             ELSE [@ EXCEPT !.pc = "refresh", !.stale = TRUE, !.seen = nRuns]]
    /\ UNCHANGED <<rates_file, history, upd, nRuns>>
    /\ RaceIdle

\* lines 239-244 in process p
RaceRefresh(p) ==
    /\ calls[p].pc = "refresh"
    /\ IF RunsOwnUpdate(p)
       THEN \E cresp \in CryptoResponses, fresp \in FiatResponses :
              LET u == RunUpdate("None", cresp, fresp, rates_file, history, now)
              IN  /\ rates_file' = u.file
                  /\ history' = u.hist
                  /\ upd' = u
                  /\ nRuns' = nRuns + 1
                  /\ calls' = [calls EXCEPT ![p] =
                        IF u.exc # "none"
                        THEN [@ EXCEPT !.res = Result("ApiRequestError", NoneRate, NoTs, ""),
                                       !.pc = "idle", !.ran = @ + 1]
                        ELSE [@ EXCEPT !.pc = "retry", !.ran = @ + 1]]
       ELSE /\ calls' = [calls EXCEPT ![p].pc = "retry"]
            /\ UNCHANGED <<rates_file, history, upd, nRuns>>
    /\ RaceIdle

\* lines 246-258 in process p
RaceRetry(p) ==
    /\ calls[p].pc = "retry"
    /\ LET c == GetCachedRate(DbFile, calls[p].req.from, calls[p].req.to, now)
       IN  calls' = [calls EXCEPT ![p] =
             IF c.exc = "none" /\ ReturnsAfterUpdate(c, now)
             THEN [@ EXCEPT !.res = Result("ok", c.rate, c.ts, ""), !.pc = "idle"]
             ELSE [@ EXCEPT !.res = Result("ApiRequestError", NoneRate, NoTs, ""), !.pc = "idle"]]
    /\ UNCHANGED <<rates_file, history, upd, nRuns>>
    /\ RaceIdle

----------------------------------------------------------------------------
(* Accounts, wallets and portfolios *)

\* float("nan") among the amounts, which are whole numbers otherwise, stands as
\* a number no amount reaches: every comparison with it is false and every sum
\* with it is nan
NaN == -1000
FLe(a, b) == a # NaN /\ b # NaN /\ a <= b
FLt(a, b) == a # NaN /\ b # NaN /\ a < b
FAdd(a, b) == IF a = NaN \/ b = NaN THEN NaN ELSE a + b
FSub(a, b) == IF a = NaN \/ b = NaN THEN NaN ELSE a - b

NoUser == 0

\* hashlib.sha256((password + salt).encode()).hexdigest()
HashPassword(password, salt) == <<"sha256", password, salt>>

UserRecord(user_id, username, password, salt) ==
    [user_id |-> user_id, username |-> username,
     hashed_password |-> HashPassword(password, salt), salt |-> salt]

\* User.__init__ takes user_id, username, hashed_password, salt and
\* registration_date: a call with fewer arguments raises TypeError
UserInitArity == 5
UserInit(args) == IF Len(args) = UserInitArity THEN "none" ELSE "TypeError"

SeqMax(ids) == CHOOSE m \in ids : \A i \in ids : i <= m

\* UserManager._get_next_user_id
GetNextUserId(us) ==
    IF us = <<>> THEN 1 ELSE SeqMax({us[i].user_id : i \in DOMAIN us}) + 1

Taken(us, username) == \E i \in DOMAIN us : us[i].username = username

NoWallets == [c \in {} |-> 0]

Out(op, ok, msg) ==
    [op |-> op, ok |-> ok, msg |-> msg, username |-> "", password |-> "", currency |-> "",
     amount |-> 0, rated |-> "", total |-> NoneRate, base |-> "",
     users0 |-> <<>>, portfolios0 |-> <<>>, user0 |-> NoUser, file0 |-> Missing]

NoOut == Out("", FALSE, "")

\* what a command found when it started
Began(o) ==
    [o EXCEPT !.users0 = users, !.portfolios0 = portfolios, !.user0 = current_user,
              !.file0 = rates_file]

TradeIdle ==
    /\ UNCHANGED <<fs, dir_file, data_dir, now, pc, req, res, cand, look, nLookups>>
    /\ UNCHANGED <<nRefresh, file0, hist0, calls, nRuns>>

\* register_user, lines 44-73: every exception becomes (False, "Registration failed")
RegisterUser(username, password) ==
    /\ ncalls < MaxTrades
    /\ ncalls' = ncalls + 1
    /\ LET o == [Began(Out("register", FALSE, "")) EXCEPT !.username = username,
                                                         !.password = password]
           user_id == GetNextUserId(users)
           made == UserInit(<<user_id, username, password>>)
       IN  IF Taken(users, username)
           THEN /\ out' = [o EXCEPT !.msg = "taken"]
                /\ UNCHANGED <<users, portfolios>>
           ELSE IF made # "none"
           THEN /\ out' = [o EXCEPT !.msg = "Registration failed"]
                /\ UNCHANGED <<users, portfolios>>
           ELSE /\ users' = Append(users, UserRecord(user_id, username, password, "salt"))
                /\ portfolios' = Append(portfolios, [user_id |-> user_id, wallets |-> NoWallets])
                /\ out' = [o EXCEPT !.ok = TRUE, !.msg = "registered"]
    /\ UNCHANGED <<current_user, rates_file, history, upd>>
    /\ TradeIdle

\* login_user, lines 82-113: the first record with the username decides
LoginUser(username, password) ==
    /\ ncalls < MaxTrades
    /\ ncalls' = ncalls + 1
    /\ LET o == [Began(Out("login", FALSE, "")) EXCEPT !.username = username,
                                                      !.password = password]
       IN  IF ~Taken(users, username)
           THEN /\ out' = [o EXCEPT !.msg = "not found"]
                /\ UNCHANGED current_user
           ELSE LET i == CHOOSE i \in DOMAIN users :
                           /\ users[i].username = username
                           /\ \A j \in 1 .. i - 1 : users[j].username # username
                IN  IF users[i].hashed_password = HashPassword(password, users[i].salt)
                    THEN /\ current_user' = users[i].user_id
                         /\ out' = [o EXCEPT !.ok = TRUE, !.msg = "logged in"]
                    ELSE /\ out' = [o EXCEPT !.msg = "Invalid password"]
                         /\ UNCHANGED current_user
    /\ UNCHANGED <<users, portfolios, rates_file, history, upd>>
    /\ TradeIdle

\* logout, lines 115-120
Logout ==
    /\ ncalls < MaxTrades
    /\ ncalls' = ncalls + 1
    /\ current_user' = NoUser
    /\ out' = Began(Out("logout", TRUE, ""))
    /\ UNCHANGED <<users, portfolios, rates_file, history, upd>>
    /\ TradeIdle

\* PortfolioManager.get_user_portfolio: the wallets of the first portfolio of the
\* user, none when there is no such portfolio
GetUserPortfolio(ps, user_id) ==
    IF \E i \in DOMAIN ps : ps[i].user_id = user_id
    THEN LET i == CHOOSE i \in DOMAIN ps :
                    /\ ps[i].user_id = user_id
                    /\ \A j \in 1 .. i - 1 : ps[j].user_id # user_id
         IN  ps[i].wallets
    ELSE NoWallets

Other(ps, user_id) == LET Keep(p) == p.user_id # user_id IN SelectSeq(ps, Keep)

\* PortfolioManager.save_portfolio
SavePortfolio(ps, user_id, wallets) ==
    Append(Other(ps, user_id), [user_id |-> user_id, wallets |-> wallets])

\* Wallet.balance setter after deposit / withdraw: the new balance, or ValueError
SetBalance(value) ==
    IF FLt(value, 0) THEN [exc |-> "ValueError", balance |-> 0]
    ELSE [exc |-> "none", balance |-> value]

Deposit(balance, amount) ==
    IF FLe(amount, 0) THEN [exc |-> "ValueError", balance |-> balance]
    ELSE SetBalance(FAdd(balance, amount))

Withdraw(balance, amount) ==
    IF FLe(amount, 0) \/ FLt(balance, amount) THEN [exc |-> "ValueError", balance |-> balance]
    ELSE SetBalance(FSub(balance, amount))

\* get_exchange_rate as one call: validation, lookup, run_update, second lookup.
\* ran says whether run_update was called, u what it returned
Resolve(from_currency, to_currency, cresp, fresp) ==
    LET v == Validate(from_currency, to_currency)
        c == GetCachedRate(DbFile, from_currency, to_currency, now)
        u == RunUpdate("None", cresp, fresp, rates_file, history, now)
        after == IF data_dir = "data" THEN u.file ELSE dir_file
        c2 == GetCachedRate(after, from_currency, to_currency, now)
        failed == Result("ApiRequestError", NoneRate, NoTs, "")
    IN  IF v # ""
        THEN [res |-> Result("CurrencyNotFoundError", NoneRate, NoTs, v), ran |-> FALSE, u |-> NoUpdate]
        ELSE IF c.exc # "none"
        THEN [res |-> Result(c.exc, NoneRate, NoTs, ""), ran |-> FALSE, u |-> NoUpdate]
        ELSE IF ReturnsCached(c, now)
        THEN [res |-> Result("ok", c.rate, c.ts, ""), ran |-> FALSE, u |-> NoUpdate]
        ELSE IF u.exc # "none"
        THEN [res |-> failed, ran |-> TRUE, u |-> u]
        ELSE IF c2.exc = "none" /\ ReturnsAfterUpdate(c2, now)
        THEN [res |-> Result("ok", c2.rate, c2.ts, ""), ran |-> TRUE, u |-> u]
        ELSE [res |-> failed, ran |-> TRUE, u |-> u]

\* what the resolution made by a trade leaves in the files
Resolved(r) ==
    IF r.ran
    THEN rates_file' = r.u.file /\ history' = r.u.hist /\ upd' = r.u
    ELSE UNCHANGED <<rates_file, history, upd>>

\* "except (ApiRequestError, CurrencyNotFoundError)" around the estimate
Caught == {"ok", "ApiRequestError", "CurrencyNotFoundError"}

\* buy_currency, lines 260-306
BuyCurrency(currency, amount, cresp, fresp) ==
    /\ ncalls < MaxTrades
    /\ ncalls' = ncalls + 1
    /\ LET o == [Began(Out("buy", FALSE, "")) EXCEPT !.currency = currency, !.amount = amount]
           wallets == GetUserPortfolio(portfolios, current_user)
           code == Upper(currency)
           balance == IF code \in DOMAIN wallets THEN wallets[code] ELSE 0
           r == Resolve(currency, DefaultBaseCurrency, cresp, fresp)
           d == Deposit(balance, amount)
       IN  IF current_user = NoUser
           THEN out' = [o EXCEPT !.msg = "Please login first"]
                /\ UNCHANGED <<portfolios, rates_file, history, upd>>
           ELSE IF ~GetCurrency(currency).found
           THEN out' = [o EXCEPT !.msg = "CurrencyNotFoundError"]
                /\ UNCHANGED <<portfolios, rates_file, history, upd>>
           ELSE IF FLe(amount, 0)
           THEN out' = [o EXCEPT !.msg = "Amount must be positive"]
                /\ UNCHANGED <<portfolios, rates_file, history, upd>>
           ELSE /\ Resolved(r)
                /\ IF r.res.kind \notin Caught \/ d.exc # "none"
                   THEN /\ out' = [o EXCEPT !.msg = "Buy operation failed", !.rated = r.res.kind]
                        /\ UNCHANGED portfolios
                   ELSE /\ portfolios' = SavePortfolio(portfolios, current_user,
                               [c \in DOMAIN wallets \cup {code} |->
                                   IF c = code THEN d.balance ELSE wallets[c]])
                        /\ out' = [o EXCEPT !.ok = TRUE, !.rated = r.res.kind,
                               !.msg = IF r.res.kind = "ok" /\ Truthy(r.res.rate)
                                       THEN "bought, estimated cost" ELSE "bought"]
    /\ UNCHANGED <<users, current_user>>
    /\ TradeIdle

\* sell_currency, lines 308-356
SellCurrency(currency, amount, cresp, fresp) ==
    /\ ncalls < MaxTrades
    /\ ncalls' = ncalls + 1
    /\ LET o == [Began(Out("sell", FALSE, "")) EXCEPT !.currency = currency, !.amount = amount]
           wallets == GetUserPortfolio(portfolios, current_user)
           code == Upper(currency)
           r == Resolve(currency, DefaultBaseCurrency, cresp, fresp)
       IN  IF current_user = NoUser
           THEN out' = [o EXCEPT !.msg = "Please login first"]
                /\ UNCHANGED <<portfolios, rates_file, history, upd>>
           ELSE IF ~GetCurrency(currency).found
           THEN out' = [o EXCEPT !.msg = "CurrencyNotFoundError"]
                /\ UNCHANGED <<portfolios, rates_file, history, upd>>
           ELSE IF FLe(amount, 0)
           THEN out' = [o EXCEPT !.msg = "Amount must be positive"]
                /\ UNCHANGED <<portfolios, rates_file, history, upd>>
           ELSE IF code \notin DOMAIN wallets
           THEN out' = [o EXCEPT !.msg = "No wallet found"]
                /\ UNCHANGED <<portfolios, rates_file, history, upd>>
           ELSE IF FLt(wallets[code], amount)
           THEN out' = [o EXCEPT !.msg = "InsufficientFundsError"]
                /\ UNCHANGED <<portfolios, rates_file, history, upd>>
           ELSE LET w == Withdraw(wallets[code], amount)
                IN  /\ Resolved(r)
                    /\ IF r.res.kind \notin Caught \/ w.exc # "none"
                       THEN /\ out' = [o EXCEPT !.msg = "Sell operation failed", !.rated = r.res.kind]
                            /\ UNCHANGED portfolios
                       ELSE /\ portfolios' = SavePortfolio(portfolios, current_user,
                                   [wallets EXCEPT ![code] = w.balance])
                            /\ out' = [o EXCEPT !.ok = TRUE, !.rated = r.res.kind,
                                   !.msg = IF r.res.kind = "ok" /\ Truthy(r.res.rate)
                                           THEN "sold, estimated revenue" ELSE "sold"]
    /\ UNCHANGED <<users, current_user>>
    /\ TradeIdle

----------------------------------------------------------------------------
(* Portfolio valuation: core/utils.py *)

\* mock_rates of utils.get_exchange_rate
MockRates ==
    [k \in {Key("EUR", "USD"), Key("BTC", "USD"), Key("RUB", "USD"), Key("ETH", "USD"),
            Key("USD", "EUR"), Key("USD", "BTC"), Key("USD", "RUB"), Key("USD", "ETH"),
            Key("EUR", "BTC"), Key("BTC", "EUR")} |->
        CASE k = Key("EUR", "USD") -> Frac(5393, 5000)
          [] k = Key("BTC", "USD") -> Frac(5933721, 100)
          [] k = Key("RUB", "USD") -> Frac(127, 12500)
          [] k = Key("ETH", "USD") -> Frac(3720, 1)
          [] k = Key("USD", "EUR") -> Frac(927, 1000)
          [] k = Key("USD", "BTC") -> Frac(337, 20000000)
          [] k = Key("USD", "RUB") -> Frac(4921, 50)
          [] k = Key("USD", "ETH") -> Frac(67, 250000)
          [] k = Key("EUR", "BTC") -> Frac(9, 500000)
          [] k = Key("BTC", "EUR") -> Frac(1111111, 20)]

\* the keys init_default_rates writes
DefaultKeys == {Key("EUR", "USD"), Key("BTC", "USD"), Key("RUB", "USD"), Key("ETH", "USD")}

\* init_default_rates, run when core/utils.py is imported: a rates.json that does
\* not exist is created, with the pairs as top-level keys
InitDefaultRates(file, nowv) ==
    IF file.kind = "missing"
    THEN [kind |-> "flat",
          pairs |-> [k \in DefaultKeys |-> [rate |-> MockRates[k], updated_at |-> nowv]],
          last_refresh |-> nowv]
    ELSE file

\* timedelta(minutes=5) of utils.get_exchange_rate, in seconds
FiveMinutes == 300

\* utils.get_exchange_rate: the pair as a top-level key of rates.json when fresh,
\* else mock_rates.get
UtilsGetExchangeRate(file, from_currency, to_currency, nowv) ==
    LET f == Upper(from_currency)
        t == Upper(to_currency)
        k == Key(f, t)
    IN  IF f = t THEN One
        ELSE IF file.kind = "flat" /\ k \in DOMAIN file.pairs
                /\ nowv - file.pairs[k].updated_at < FiveMinutes
        THEN file.pairs[k].rate
        ELSE IF k \in DOMAIN MockRates THEN MockRates[k] ELSE NoneRate

\* sum of two floats as fractions
Plus(a, b) == Frac(a[1] * b[2] + b[1] * a[2], a[2] * b[2])

\* balance * rate
Times(balance, rate) == Frac(balance * rate[1], rate[2])

\* Portfolio.get_total_value over the wallets cs, with rate(c) the rate of c
RECURSIVE TotalValue(_, _, _, _, _)
TotalValue(wallets, cs, base, file, nowv) ==
    IF cs = {} THEN Frac(0, 1)
    ELSE LET c == CHOOSE c \in cs : TRUE
             rest == TotalValue(wallets, cs \ {c}, base, file, nowv)
             rate == UtilsGetExchangeRate(file, c, base, nowv)
         IN  IF wallets[c] = NaN \/ rest = NoneRate THEN NoneRate
             ELSE IF c = base THEN Plus(rest, Frac(wallets[c], 1))
             ELSE IF rate # NoneRate THEN Plus(rest, Times(wallets[c], rate))
             ELSE rest

\* the show-portfolio command: get_total_value imports core/utils.py
ShowPortfolio(base) ==
    /\ ncalls < MaxTrades
    /\ ncalls' = ncalls + 1
    /\ LET o == [Began(Out("show", FALSE, "")) EXCEPT !.base = base]
           wallets == GetUserPortfolio(portfolios, current_user)
           file == InitDefaultRates(rates_file, now)
       IN  IF current_user = NoUser
           THEN out' = [o EXCEPT !.msg = "Please login first"] /\ UNCHANGED rates_file
           ELSE IF DOMAIN wallets = {}
           THEN out' = [o EXCEPT !.msg = "Portfolio is empty"] /\ UNCHANGED rates_file
           ELSE /\ rates_file' = file
                /\ out' = [o EXCEPT !.ok = TRUE, !.msg = "Total value",
                                    !.total = TotalValue(wallets, DOMAIN wallets, Upper(base), file, now)]
    /\ UNCHANGED <<users, portfolios, current_user, history, upd>>
    /\ TradeIdle

----------------------------------------------------------------------------
(* save_rates and load_rates, system call by system call *)

\* The bytes of a file are a sequence of cells; the cell <<s, i>> is the i-th
\* chunk of the snapshot process s saves, Blank a hole left by a write past the
\* end.  Process 0 wrote the snapshot found at start.
Savers == 1 .. NSavers
Blank == <<0, 0>>
Whole(s) == [i \in 1 .. NChunks |-> <<s, i>>]

NoInode == 0
FinalInode == 1

\* a process outside save_rates: no descriptor, nothing written
Outside == [pc |-> "start", fd |-> NoInode, off |-> 0]

FsInit ==
    [final |-> FinalInode,
     temp |-> NoInode,
     data |-> [n \in {FinalInode} |-> Whole(0)],
     sv |-> [s \in Savers |-> Outside],
     seen |-> [loaded |-> FALSE, bytes |-> <<>>]]

core == <<now, rates_file, history, pc, req, res, cand, look, nLookups, nRefresh,
          file0, hist0, upd, ncalls,
          data_dir,
          dir_file,
          calls,
          nRuns,
          users,
          portfolios,
          current_user,
          out>>

\* write(fd, chunk) at offset off: the file grows to hold it
WriteAt(bytes, off, cell) ==
    [i \in 1 .. (IF Len(bytes) > off + 1 THEN Len(bytes) ELSE off + 1) |->
        IF i = off + 1 THEN cell
        ELSE IF i <= Len(bytes) THEN bytes[i]
        ELSE Blank]

\* storage.py:40, open(temp_file, 'w'): the one path rates.json.tmp is created,
\* or the file already behind it is truncated
OpenTemp(s) ==
    /\ fs.sv[s].pc = "start"
    /\ LET n == IF fs.temp = NoInode THEN FinalInode + s ELSE fs.temp
       IN  fs' = [fs EXCEPT !.temp = n,
                            !.data = [m \in DOMAIN fs.data \cup {n} |->
                                         IF m = n THEN <<>> ELSE fs.data[m]],
                            !.sv[s] = [pc |-> "open", fd |-> n, off |-> 0]]
    /\ UNCHANGED core

\* storage.py:41, json.dump(rates_data, f): one write() of the next chunk
WriteChunk(s) ==
    /\ fs.sv[s].pc = "open"
    /\ fs.sv[s].off < NChunks
    /\ LET n == fs.sv[s].fd
           off == fs.sv[s].off
       IN  fs' = [fs EXCEPT !.data[n] = WriteAt(fs.data[n], off, <<s, off + 1>>),
                            !.sv[s].off = off + 1]
    /\ UNCHANGED core

\* the end of the with block: the file object is closed
CloseTemp(s) ==
    /\ fs.sv[s].pc = "open"
    /\ fs.sv[s].off = NChunks
    /\ fs' = [fs EXCEPT !.sv[s].pc = "closed"]
    /\ UNCHANGED core

\* storage.py:43, os.replace(temp_file, RATES_FILE_PATH): the file now behind the
\* temp name takes the place of rates.json; with no temp name left it raises
\* FileNotFoundError, which save_rates logs before it returns False
Replace(s) ==
    /\ fs.sv[s].pc = "closed"
    /\ fs' = IF fs.temp = NoInode
              THEN [fs EXCEPT !.sv[s].pc = "failed"]
              ELSE [fs EXCEPT !.final = fs.temp, !.temp = NoInode, !.sv[s].pc = "done"]
    /\ UNCHANGED core

\* database.py:64-65 and storage.py:99-100: open rates.json and read it
LoadRates ==
    /\ fs' = [fs EXCEPT !.seen = [loaded |-> TRUE, bytes |-> fs.data[fs.final]]]
    /\ UNCHANGED core

SaveNext ==
    \/ \E s \in Savers : OpenTemp(s)
    \/ \E s \in Savers : WriteChunk(s)
    \/ \E s \in Savers : CloseTemp(s)
    \/ \E s \in Savers : Replace(s)
    \/ LoadRates

----------------------------------------------------------------------------
(* The states the program starts in *)

\* the codes a caller asks about: the base, a fiat and a crypto currency, and a
\* code that is not registered
ReqCodes == {"USD", "EUR", "BTC", "XXX"}

Sources == {"None", "coingecko", "exchangerate"}

\* the pairs a rates file found at start may hold, and the rate of each
InitKeys == {Key("EUR", "USD"), Key("BTC", "USD"), Key("EUR", "BTC"),
             Key("BTC", "EUR"), Key("USD", "EUR")}

InitRate(k) ==
    CASE k = Key("EUR", "USD") -> Frac(2, 1)
      [] k = Key("BTC", "USD") -> Frac(8, 1)
      [] k = Key("EUR", "BTC") -> Frac(3, 1)
      [] k = Key("BTC", "EUR") -> Frac(5, 1)
      [] OTHER -> Frac(7, 1)

\* the age of its entries: the last fresh second or the first stale one
InitAges == {TTL - 1, TTL}

Entry(rate, updated_at) == [rate |-> rate, updated_at |-> updated_at, source |-> "all"]

Snapshot(pairs) == [kind |-> "snapshot", pairs |-> pairs, last_refresh |-> Now0 - TTL]

WellFormedFiles ==
    { Snapshot([k \in K |-> Entry(InitRate(k), Now0 - age)])
        : K \in SUBSET InitKeys, age \in InitAges }

\* files whose entries break the store's "rate > 0" rule
OddFiles ==
    { Snapshot([k \in {Key("EUR", "USD")} |-> Entry(Frac(0, 1), Now0 - a)]) : a \in InitAges }

InitFiles == {Missing, Corrupt, Undecodable} \cup WellFormedFiles \cup OddFiles

\* users.json, portfolios.json and session.json as a command may find them:
\* nothing, or a user stored with a wallet, logged in or not
Bob == UserRecord(1, "bob", "secret", "salt")
InitUsers == {<<>>, <<Bob>>}
InitPortfolios == {<<>>, <<[user_id |-> 1, wallets |-> [c \in {"EUR"} |-> 1]]>>}
InitSessions == {NoUser, 1}

\* the data directories a configuration may name: the default of settings.py
\* and parser_service/config.py, and one set by VALUTATRADE_DATA_DIR
DefaultDataDir == "data"
DataDirs == {DefaultDataDir, "var"}

Start ==
    /\ now = Now0
    /\ history = <<>>
    /\ pc = "idle"
    /\ req = NoReq
    /\ res = NoResult
    /\ cand = NoCand
    /\ look = NoCand
    /\ nLookups = 0
    /\ nRefresh = 0
    /\ file0 = rates_file
    /\ hist0 = history
    /\ upd = NoUpdate
    /\ ncalls = 0
    /\ data_dir \in DataDirs
    /\ dir_file = Missing
    /\ calls = [p \in Procs |-> NoCall]
    /\ nRuns = 0
    /\ users \in InitUsers
    /\ portfolios \in InitPortfolios
    /\ current_user \in InitSessions
    /\ out = NoOut
    /\ fs = FsInit

\* the default configuration, with no account stored
Init ==
    /\ rates_file \in InitFiles
    /\ Start
    /\ data_dir = DefaultDataDir
    /\ users = <<>>
    /\ portfolios = <<>>
    /\ current_user = NoUser

\* the get-rate command: get_exchange_rate calls, each with the refresh it may make
Next ==
    \/ \E f \in ReqCodes, t \in ReqCodes : GetRateBegin(f, t)
    \/ Lookup
    \/ Refresh
    \/ Retry
    \/ \E d \in TickSteps : Tick(d)

Spec == Init /\ [][Next]_vars

\* the update-rates command: run_update calls under every source filter
UpdaterNext ==
    \/ \E source \in Sources : UpdateRates(source)
    \/ \E d \in TickSteps : Tick(d)

UpdaterSpec == Init /\ [][UpdaterNext]_vars

\* both commands in any order, from no cache file or from a stale one
HubFiles ==
    {Missing, Snapshot([k \in InitKeys |-> Entry(InitRate(k), Now0 - TTL)])}

HubInit == Init /\ rates_file \in HubFiles

HubNext ==
    \/ \E f \in ReqCodes, t \in ReqCodes : GetRateBegin(f, t)
    \/ Lookup
    \/ Refresh
    \/ Retry
    \/ \E source \in Sources : UpdateRates(source)
    \/ \E d \in TickSteps : Tick(d)

HubSpec == HubInit /\ [][HubNext]_vars

\* get-rate with the codes as a caller may type them, in either letter case
CaseCodes == {"eur", "usd", "EUR", "USD"}

CaseNext ==
    \/ \E f \in CaseCodes, t \in CaseCodes : GetRateBegin(f, t)
    \/ Lookup
    \/ Refresh
    \/ Retry
    \/ \E d \in TickSteps : Tick(d)

\* from no cache file, or from one holding every pair, fresh or stale
CaseFiles ==
    {Missing} \cup
    { Snapshot([k \in InitKeys |-> Entry(InitRate(k), Now0 - age)]) : age \in InitAges }

CaseInit == Init /\ rates_file \in CaseFiles

CaseSpec == CaseInit /\ [][CaseNext]_vars

\* get-rate under every configuration of the data directory
DirInit ==
    /\ rates_file \in CaseFiles
    /\ Start
    /\ users = <<>>
    /\ portfolios = <<>>
    /\ current_user = NoUser

DirSpec == DirInit /\ [][Next]_vars

\* get-rate commands of processes running at the same time, on a cache that is
\* missing, stale or fresh
RaceReqs == {<<"EUR", "USD">>, <<"EUR", "XXX">>}

RaceNext ==
    \E p \in Procs :
        \/ \E r \in RaceReqs : RaceBegin(p, r[1], r[2])
        \/ RaceLookup(p)
        \/ RaceRefresh(p)
        \/ RaceRetry(p)

RaceInit == Init /\ rates_file \in CaseFiles

RaceSpec == RaceInit /\ [][RaceNext]_vars

\* the account, trading and portfolio commands
Usernames == {"bob", "eve"}
Passwords == {"secret", "wrong"}
TradeCodes == {"EUR", "XXX"}
Amounts == {-1, 0, 1, 2, NaN}

\* what CoinGecko answers while the commands run: it is down
TradeCrypto == {r \in CryptoResponses : r.kind = "error"}

\* a cache that is missing, fresh, or holds an entry that breaks the lookup
TradeFiles ==
    {Missing,
     Snapshot([k \in InitKeys |-> Entry(InitRate(k), Now0 - (TTL - 1))]),
     Snapshot([k \in {Key("USD", "EUR")} |-> Entry(Frac(0, 1), Now0 - (TTL - 1))])}

TradeInit ==
    /\ rates_file \in TradeFiles
    /\ Start
    /\ data_dir = DefaultDataDir
    /\ users = <<>> => (portfolios = <<>> /\ current_user = NoUser)

TradeNext ==
    \/ \E u \in Usernames, p \in Passwords : RegisterUser(u, p)
    \/ \E u \in Usernames, p \in Passwords : LoginUser(u, p)
    \/ Logout
    \/ \E c \in TradeCodes, a \in Amounts, cresp \in TradeCrypto, fresp \in FiatResponses :
          BuyCurrency(c, a, cresp, fresp)
    \/ \E c \in TradeCodes, a \in Amounts, cresp \in TradeCrypto, fresp \in FiatResponses :
          SellCurrency(c, a, cresp, fresp)
    \/ ShowPortfolio(DefaultBaseCurrency)

TradeSpec == TradeInit /\ [][TradeNext]_vars

\* processes saving and loading rates.json at the same time
SaveInit == Init /\ rates_file = Missing

SaveSpec == SaveInit /\ [][SaveNext]_vars

----------------------------------------------------------------------------
(* What the properties speak about *)

\* a get_exchange_rate call has handed its result (a value or an exception) to its caller
Returned == pc = "idle" /\ res.kind # "none"

\* a get_exchange_rate call is running or has just returned
Called == req # NoReq

BothRegistered == Upper(req.from) \in Registry /\ Upper(req.to) \in Registry

\* the snapshot the call's first lookup loaded, and the one its latest lookup loaded
P0 == DbLoadPairs(file0)
PLast == IF nLookups = 2 THEN DbLoadPairs(rates_file) ELSE P0

DKey == Key(req.from, req.to)
IKey == Key(req.to, req.from)

\* 1 / r of a fraction in lowest terms
Recip(r) == <<r[2], r[1]>>

\* q = b / a, fractions in lowest terms
IsQuotient(q, b, a) == q = Frac(b[1] * a[2], b[2] * a[1])

Positive(r) == r[1] > 0 /\ r[2] > 0

----------------------------------------------------------------------------
\* C1: for a registered code c, get_exchange_rate(c, c) returns rate 1.0 and
\* makes no cache lookup and no refresh, whatever the cache holds.
C1_IdentityShortCircuit ==
    (Returned /\ BothRegistered /\ req.from = req.to)
        => /\ res.kind = "ok"
           /\ res.rate = One
           /\ nLookups = 0
           /\ nRefresh = 0

\* C2: a call with a code that is not registered raises CurrencyNotFoundError
\* carrying the first such code, before any lookup, provider call, save or history
\* append; the cache and the history are as they were.
C2_UnknownCurrencyGuard ==
    (Called /\ ~BothRegistered)
        => /\ pc = "idle"
           /\ res.kind = "CurrencyNotFoundError"
           /\ res.code = (IF Upper(req.from) \notin Registry THEN Upper(req.from)
                           ELSE Upper(req.to))
           /\ nLookups = 0
           /\ nRefresh = 0
           /\ upd = NoUpdate
           /\ rates_file = file0
           /\ history = hist0

C2_Witness ==
    /\ Returned
    /\ req = [from |-> "USD", to |-> "XXX"]
    /\ res.kind = "CurrencyNotFoundError"
    /\ res.code = "XXX"
    /\ DOMAIN P0 # {}

\* C3: with A_B cached at rate r > 0 and an age below TTL, get_exchange_rate(A, B)
\* for registered A and B returns exactly (r, updated_at) after one lookup, with no
\* refresh and with the cache file and the history unchanged.
C3_DirectFresh ==
    (Called /\ BothRegistered /\ DKey \in DOMAIN P0
       /\ Positive(P0[DKey].rate) /\ HasTs(P0[DKey]) /\ now - P0[DKey].updated_at < TTL)
        => /\ pc \in {"lookup", "idle"}
           /\ nRefresh = 0
           /\ upd = NoUpdate
           /\ rates_file = file0
           /\ history = hist0
           /\ pc = "idle" => /\ res = Result("ok", P0[DKey].rate, P0[DKey].updated_at, "")
                             /\ nLookups = 1

C3_Witness ==
    /\ Returned
    /\ req = [from |-> "EUR", to |-> "USD"]
    /\ DKey \in DOMAIN P0
    /\ now - P0[DKey].updated_at = TTL - 1
    /\ res = Result("ok", Frac(2, 1), now - (TTL - 1), "")

\* C4: with B_A absent and A_B cached at rate r > 0 and an age below TTL,
\* get_exchange_rate(B, A) returns (1/r, the entry's updated_at), with no refresh.
C4_InverseFresh ==
    (Called /\ BothRegistered /\ DKey \notin DOMAIN P0 /\ IKey \in DOMAIN P0
       /\ Positive(P0[IKey].rate) /\ HasTs(P0[IKey]) /\ now - P0[IKey].updated_at < TTL)
        => /\ pc \in {"lookup", "idle"}
           /\ nRefresh = 0
           /\ upd = NoUpdate
           /\ pc = "idle" =>
                res = Result("ok", Recip(P0[IKey].rate), P0[IKey].updated_at, "")

C4_Witness ==
    /\ Returned
    /\ req = [from |-> "USD", to |-> "BTC"]
    /\ DKey \notin DOMAIN P0
    /\ IKey \in DOMAIN P0
    /\ P0[IKey].rate = Frac(8, 1)
    /\ res = Result("ok", <<1, 8>>, now - (TTL - 1), "")
    /\ nRefresh = 0

\* C5: lookup precedence.  With from_to in the snapshot the candidate is the direct
\* entry, whatever else is cached; with from_to absent and to_from present it is the
\* inverse entry, even when both base legs are cached; a cross rate is computed only
\* when both are absent.
C5_LookupPrecedence ==
    (Called /\ nLookups >= 1) =>
        /\ DKey \in DOMAIN PLast =>
              /\ cand.via = "direct"
              /\ HasTs(PLast[DKey]) =>
                    /\ cand.rate = PLast[DKey].rate
                    /\ cand.ts = PLast[DKey].updated_at
        /\ (DKey \notin DOMAIN PLast /\ IKey \in DOMAIN PLast) =>
              /\ cand.via = "inverse"
              /\ (HasTs(PLast[IKey]) /\ Positive(PLast[IKey].rate)) =>
                    /\ cand.rate = Recip(PLast[IKey].rate)
                    /\ cand.ts = PLast[IKey].updated_at
        /\ cand.via = "triangulated" =>
              (DKey \notin DOMAIN PLast /\ IKey \notin DOMAIN PLast)

C5_Witness ==
    /\ Called
    /\ nLookups = 1
    /\ req = [from |-> "EUR", to |-> "BTC"]
    /\ {DKey, IKey, Key("EUR", "USD"), Key("BTC", "USD")} \subseteq DOMAIN P0
    /\ cand.via = "direct"
    /\ cand.rate = Frac(3, 1)

\* C6: with neither A_B nor B_A cached, neither A nor B the base currency and both
\* A_USD and B_USD cached (rates > 0), get_exchange_rate(A, B) returns B_USD / A_USD
\* stamped with the current time, after one lookup and with no refresh, however old
\* the two legs are.
C6_Triangulation ==
    (Called /\ BothRegistered /\ nLookups >= 1
       /\ DKey \notin DOMAIN P0 /\ IKey \notin DOMAIN P0
       /\ req.from # DefaultBaseCurrency /\ req.to # DefaultBaseCurrency
       /\ Key(req.from, DefaultBaseCurrency) \in DOMAIN P0
       /\ Key(req.to, DefaultBaseCurrency) \in DOMAIN P0
       /\ Positive(P0[Key(req.from, DefaultBaseCurrency)].rate)
       /\ Positive(P0[Key(req.to, DefaultBaseCurrency)].rate))
        => /\ pc = "idle"
           /\ res.kind = "ok"
           /\ IsQuotient(res.rate, P0[Key(req.to, DefaultBaseCurrency)].rate,
                                   P0[Key(req.from, DefaultBaseCurrency)].rate)
           /\ res.ts = now
           /\ nLookups = 1
           /\ nRefresh = 0
           /\ rates_file = file0

C6_Witness ==
    /\ Returned
    /\ req = [from |-> "EUR", to |-> "BTC"]
    /\ DKey \notin DOMAIN P0 /\ IKey \notin DOMAIN P0
    /\ {Key("EUR", "USD"), Key("BTC", "USD")} \subseteq DOMAIN P0
    /\ P0[Key("EUR", "USD")].rate = Frac(2, 1)
    /\ P0[Key("BTC", "USD")].rate = Frac(8, 1)
    /\ now - P0[Key("EUR", "USD")].updated_at >= TTL
    /\ now - P0[Key("BTC", "USD")].updated_at >= TTL
    /\ res = Result("ok", Frac(4, 1), now, "")
    /\ nRefresh = 0

FoundKey == IF DKey \in DOMAIN P0 THEN DKey ELSE IKey
Found == FoundKey \in DOMAIN P0 /\ HasTs(P0[FoundKey]) /\ Positive(P0[FoundKey].rate)
FoundAge == now - P0[FoundKey].updated_at

\* C8: the freshness test is strict.  A direct or inverse candidate of age below TTL
\* (TTL - 1 included) is returned after one lookup with no refresh; one of age TTL or
\* more is not returned by the first lookup: the call goes on to run_update.
C8_StrictFreshness ==
    (Called /\ BothRegistered /\ nLookups >= 1 /\ Found) =>
        /\ FoundAge < TTL => (pc = "idle" /\ nRefresh = 0 /\ nLookups = 1
                                /\ res.kind = "ok" /\ res.ts = P0[FoundKey].updated_at)
        /\ FoundAge >= TTL => (pc = "refresh" \/ nRefresh = 1)

C8_Witness ==
    /\ Returned
    /\ Found
    /\ FoundAge = TTL
    /\ nRefresh = 1

\* C9: a stale direct or inverse entry is never returned as it is: the call runs
\* the refresh, and whatever the refresh did, a value returned has an updated_at of
\* age below TTL.
C9_StaleNeverReturned ==
    (Returned /\ BothRegistered /\ Found /\ FoundAge >= TTL) =>
        /\ nRefresh = 1
        /\ res.kind = "ok" => now - res.ts < TTL

\* C10: a call makes at most one run_update and at most one lookup after it; when
\* that lookup finds nothing usable the call ends with ApiRequestError.
C10_SingleRefresh ==
    /\ nRefresh <= 1
    /\ nLookups <= 2
    /\ nLookups <= nRefresh + 1
    /\ pc = "retry" => (nRefresh = 1 /\ nLookups = 1)
    /\ pc = "refresh" => (nRefresh = 0 /\ nLookups = 1)
    /\ (Returned /\ nRefresh = 1) =>
          /\ nLookups = (IF upd.exc = "none" THEN 2 ELSE 1)
          /\ res.kind \in {"ok", "ApiRequestError"}
          /\ upd.exc # "none" => res.kind = "ApiRequestError"
          /\ ~Usable(cand) => res.kind = "ApiRequestError"

C10_Witness ==
    /\ Returned
    /\ nRefresh = 1
    /\ nLookups = 2
    /\ cand = NoCand
    /\ res.kind = "ApiRequestError"

----------------------------------------------------------------------------
(* Update orchestrator and rate cache store *)

\* a run_update call has just ended: upd holds what it did, file0 and hist0 what
\* the two files held when it began
Updated == upd.source # ""

CryptoRaised == upd.crypto.exc = "ApiRequestError"
CryptoEmpty == upd.crypto.exc = "none" /\ upd.crypto.rates = <<>>
FiatRaised == upd.fiat.exc = "ApiRequestError"
FiatEmpty == upd.fiat.exc = "none" /\ upd.fiat.rates = <<>>
FiatGave == upd.fiat.exc = "none" /\ upd.fiat.rates # <<>>
CryptoGave == upd.crypto.exc = "none" /\ upd.crypto.rates # <<>>

\* the mapping m holds exactly the pairs of the provider result r, at r's rates
SameRates(m, r) ==
    /\ DOMAIN m = KeysOf(r)
    /\ \A i \in DOMAIN r : m[r[i][1]] = r[i][2]

\* the saved file holds exactly the pairs of m, at m's rates
FileHolds(file, m) ==
    /\ file.kind = "snapshot"
    /\ DOMAIN file.pairs = DOMAIN m
    /\ \A k \in DOMAIN m : file.pairs[k].rate = m[k]

CryptoKeys == {Key(CRYPTO_CURRENCIES[i], BASE_CURRENCY) : i \in DOMAIN CRYPTO_CURRENCIES}

\* C11: run_update(None) whose crypto provider raises its provider error and whose
\* fiat provider returns a non-empty F does not raise, returns exactly F, and the
\* saved cache holds exactly F's pairs at F's rates, no crypto pair among them.
C11_PartialFailure ==
    (Updated /\ upd.source = "None" /\ CryptoRaised /\ FiatGave) =>
        /\ upd.exc = "none"
        /\ SameRates(upd.rates, upd.fiat.rates)
        /\ upd.saved
        /\ FileHolds(rates_file, upd.rates)
        /\ DOMAIN rates_file.pairs \cap CryptoKeys = {}
        /\ \A k \in DOMAIN rates_file.pairs : Truthy(rates_file.pairs[k].rate)

C11_Witness ==
    /\ Updated /\ upd.source = "None" /\ CryptoRaised /\ FiatGave
    /\ Key("BTC", "USD") \in DOMAIN DbLoadPairs(file0)
    /\ DOMAIN rates_file.pairs = {Key("EUR", "USD")}

\* C12: when every provider run_update invokes raises its provider error or returns
\* an empty mapping, run_update returns the empty mapping, saves nothing and leaves
\* the cache file (pairs and last_refresh) as it was.
NothingFetched ==
    /\ Updated
    /\ upd.crypto.exc = "skipped" \/ CryptoRaised \/ CryptoEmpty
    /\ upd.fiat.exc = "skipped" \/ FiatRaised \/ FiatEmpty

C12_TotalFailure ==
    NothingFetched =>
        /\ upd.exc = "none"
        /\ DOMAIN upd.rates = {}
        /\ ~upd.saved
        /\ rates_file = file0

C12_Witness ==
    /\ NothingFetched
    /\ upd.source = "None" /\ CryptoRaised /\ FiatEmpty
    /\ file0.kind = "snapshot" /\ DOMAIN file0.pairs # {}
    /\ rates_file = file0

FiatKeys == {Key(FIAT_CURRENCIES[i], BASE_CURRENCY) : i \in DOMAIN FIAT_CURRENCIES}

\* the records the call appended to the history log
Appended == SubSeq(history, Len(hist0) + 1, Len(history))

\* C13: run_update with no source filter invokes the crypto provider and then the
\* fiat provider; with a filter it invokes the matching provider only, and what it
\* returns and saves holds that provider's pairs only.
C13_SourceSelection ==
    Updated =>
        /\ upd.source = "None" => (upd.crypto_called /\ upd.fiat_called)
        /\ upd.source = "coingecko" =>
              /\ upd.crypto_called /\ ~upd.fiat_called
              /\ DOMAIN upd.rates \subseteq CryptoKeys
              /\ upd.saved => DOMAIN rates_file.pairs \subseteq CryptoKeys
        /\ upd.source = "exchangerate" =>
              /\ upd.fiat_called /\ ~upd.crypto_called
              /\ DOMAIN upd.rates \subseteq FiatKeys
              /\ upd.saved => DOMAIN rates_file.pairs \subseteq FiatKeys
        /\ \A i, j \in DOMAIN Appended :
              (Appended[i].source = "ExchangeRate-API" /\ Appended[j].source = "CoinGecko")
                  => j < i

C13_Witness ==
    /\ Updated
    /\ upd.source = "coingecko"
    /\ CryptoGave /\ upd.saved
    /\ Key("EUR", "USD") \in DOMAIN DbLoadPairs(file0)
    /\ DOMAIN rates_file.pairs = {Key("BTC", "USD")}
    /\ Len(Appended) = 1

\* what a provider call added to all_rates
Given(fetched) == IF fetched.exc = "none" THEN fetched.rates ELSE <<>>

\* all_rates when the call ended
Merged == Merge(Given(upd.crypto), Given(upd.fiat))

\* the history records one provider's result calls for
Expected(rates, label, crypto) ==
    [i \in DOMAIN rates |->
        [pair |-> rates[i][1], rate |-> rates[i][2], source |-> label,
         meta |-> IF crypto THEN CRYPTO_ID_MAP(rates[i][1][1]) ELSE "{}"]]

Logged ==
    [i \in DOMAIN Appended |->
        [pair |-> <<Appended[i].from_currency, Appended[i].to_currency>>,
         rate |-> Appended[i].rate, source |-> Appended[i].source,
         meta |-> Appended[i].meta]]

\* C14: a run_update call whose merged mapping is non-empty appends one history
\* record per pair of each successful provider, labelled "CoinGecko" (with the
\* asset id as raw_id) or "ExchangeRate-API", and saves the cache; a call whose
\* merge is empty changes neither the history nor the cache.
C14_HistoryPerPair ==
    Updated =>
        IF DOMAIN Merged # {}
        THEN /\ Logged = Expected(Given(upd.crypto), "CoinGecko", TRUE)
                           \o Expected(Given(upd.fiat), "ExchangeRate-API", FALSE)
             /\ upd.saved
             /\ FileHolds(rates_file, Merged)
        ELSE /\ history = hist0
             /\ rates_file = file0

IsPrefix(s, t) == Len(s) <= Len(t) /\ SubSeq(t, 1, Len(s)) = s

\* C15: the history log is append-only: over every step of every run_update and
\* get_exchange_rate call the list before is an unchanged prefix of the list after.
C15_HistoryAppendOnly == [][IsPrefix(history, history')]_vars

C15_Witness ==
    /\ Len(hist0) > 0
    /\ Len(history) > Len(hist0)
    /\ IsPrefix(hist0, history)
    /\ Called

\* C16: the fiat provider's fetch_rates never raises and returns a non-empty
\* mapping of fiat pairs, whatever the response was.
C16_FiatAlwaysSomeRates ==
    (Updated /\ upd.fiat_called) =>
        /\ upd.fiat.exc = "none"
        /\ upd.fiat.rates # <<>>
        /\ KeysOf(upd.fiat.rates) \subseteq FiatKeys

\* a provider failed: the transport failed or the payload was unusable
CryptoFailed == upd.crypto_called /\ upd.crypto_resp = "error"
FiatFailed == upd.fiat_called /\ upd.fiat_resp \in {"error", "notobject"}

\* C17: a failing crypto provider raises ApiRequestError and adds no pair and no
\* history record; a failing fiat provider raises nothing and adds the demo table;
\* so run_update(None) with both failing saves exactly the demo fiat pairs.
C17_FailureAsymmetry ==
    Updated =>
        /\ CryptoFailed =>
              /\ CryptoRaised
              /\ DOMAIN Merged \cap CryptoKeys = {}
              /\ \A i \in DOMAIN Appended : Appended[i].source # "CoinGecko"
        /\ FiatFailed =>
              /\ upd.fiat.exc = "none"
              /\ upd.fiat.rates = DemoRates
        /\ (upd.source = "None" /\ CryptoFailed /\ FiatFailed) =>
              /\ upd.exc = "none"
              /\ upd.saved
              /\ FileHolds(rates_file, Merge(<<>>, DemoRates))

\* the files the claim calls missing or corrupt
Damaged == {"missing", "corrupt", "undecodable"}

\* C18: on a missing or corrupt rates.json neither loader raises, both yield a
\* snapshot with no pairs, and a get_exchange_rate call finds every pair absent
\* and goes on to the refresh.
C18_LoadNeverRaises ==
    (Called /\ BothRegistered /\ nLookups >= 1 /\ file0.kind \in Damaged) =>
        /\ LoadExc(file0) = "none"
        /\ DOMAIN P0 = {}
        /\ DOMAIN StorageLoadRates(file0).pairs = {}
        /\ look = NoCand
        /\ pc = "refresh" \/ nRefresh = 1

\* the label run_update passes to save_rates
SourceStr == IF upd.source = "None" THEN "all" ELSE upd.source

\* C19: save_rates(rates, source) replaces the snapshot wholesale: the cached keys
\* are exactly the keys of rates, each with the given rate, the given source label
\* and updated_at = the save time, and last_refresh = the save time.
C19_SaveReplacesSnapshot ==
    (Updated /\ upd.saved) =>
        /\ rates_file.kind = "snapshot"
        /\ DOMAIN rates_file.pairs = DOMAIN upd.rates
        /\ \A k \in DOMAIN upd.rates :
              rates_file.pairs[k] =
                  [rate |-> upd.rates[k], updated_at |-> now, source |-> SourceStr]
        /\ rates_file.last_refresh = now

C19_Witness ==
    /\ Updated /\ upd.saved
    /\ file0.kind = "snapshot"
    /\ Key("BTC", "EUR") \in DOMAIN file0.pairs
    /\ Key("EUR", "USD") \in DOMAIN file0.pairs
    /\ file0.pairs[Key("EUR", "USD")].updated_at < now
    /\ DOMAIN rates_file.pairs = {Key("EUR", "USD")}
    /\ rates_file.pairs[Key("EUR", "USD")].updated_at = now
    /\ upd.source = "exchangerate"

\* the bytes are one snapshot in full: the one found at start or one process's
Complete(bytes) == \E s \in {0} \cup Savers : bytes = Whole(s)

\* C20: however the steps of concurrent save_rates calls interleave with loads,
\* every load reads a complete snapshot that one save_rates call (or the initial
\* state) produced in full.
C20_AtomicVisibility == fs.seen.loaded => Complete(fs.seen.bytes)

----------------------------------------------------------------------------
(* Rate resolution engine: outcomes, codes, stores *)

\* C21: for registered codes and any snapshot in the cache file, a stored rate of
\* 0 included, get_exchange_rate returns a rate > 0 or fails with
\* CurrencyNotFoundError or ApiRequestError; no other exception reaches the caller.
C21_OnlyResolutionErrors ==
    (Returned /\ BothRegistered /\ file0.kind = "snapshot") =>
        \/ res.kind = "ok" /\ Positive(res.rate)
        \/ res.kind \in {"CurrencyNotFoundError", "ApiRequestError"}

\* what the lookup gives for the upper-case forms of the call's codes
UpperLook == GetCachedRate(file0, Upper(req.from), Upper(req.to), now)

\* C22: get_exchange_rate upper-cases both codes before it validates them and
\* before it builds the pair keys: for registered codes in any letter case the
\* lookup, and so the result, is that of the upper-case codes on the same cache.
C22_CaseNormalized ==
    (Called /\ BothRegistered /\ nLookups >= 1) =>
        /\ look = UpperLook
        /\ (Returned /\ ReturnsCached(UpperLook, now)) =>
              res = Result("ok", UpperLook.rate, UpperLook.ts, "")

\* C23: every get_exchange_rate lookup reads the store run_update writes, so a
\* lookup made after a run_update that saved M returns M's rate for a pair of M,
\* under every configuration of the data directory.
C23_ObservesLatestRefresh ==
    (Returned /\ BothRegistered /\ nLookups = 2 /\ upd.saved
        /\ DKey \in DOMAIN upd.rates /\ Truthy(upd.rates[DKey])) =>
            /\ res.kind = "ok"
            /\ res.rate = upd.rates[DKey]

\* what get_exchange_rate(A, USD) and get_exchange_rate(USD, B) find in the
\* snapshot the call's first lookup loaded
LegToBase == GetCachedRate(file0, req.from, TriBase, now)
LegFromBase == GetCachedRate(file0, TriBase, req.to, now)

\* C29: with A_USD and B_USD cached fresh and neither A_B nor B_A cached, the
\* triangulated get_exchange_rate(A, B) equals get_exchange_rate(A, USD) *
\* get_exchange_rate(USD, B) taken from the same snapshot.
C29_TriangleComposes ==
    (Returned /\ BothRegistered /\ nLookups = 1 /\ look.via = "triangulated"
        /\ req.from # req.to
        /\ LegToBase.via = "direct" /\ ReturnsCached(LegToBase, now)
        /\ LegFromBase.via = "inverse" /\ ReturnsCached(LegFromBase, now)) =>
            /\ res.kind = "ok"
            /\ res.rate = Mul(LegToBase.rate, LegFromBase.rate)

----------------------------------------------------------------------------
(* Rate resolution engine: calls running at the same time *)

\* the calls whose first lookup gave nothing fresh and that are past line 243
Refreshed == {p \in Procs : calls[p].stale /\ calls[p].pc \in {"retry", "idle"}}

\* C25: refreshes are not coalesced.  Each get_exchange_rate call that finds its
\* pair stale or missing runs a full run_update of its own, whatever the other
\* calls do meanwhile: the run_update calls made are as many as such calls.
C25_NoCoalescing ==
    /\ nRuns = Cardinality(Refreshed)
    /\ \A p \in Procs : calls[p].ran = (IF p \in Refreshed THEN 1 ELSE 0)

\* two calls for the same pair, each finding it missing before the other's
\* refresh, both returned: two refreshes ran
C25_Witness ==
    /\ \A p \in Procs : /\ calls[p].req = [from |-> "EUR", to |-> "USD"]
                         /\ calls[p].stale
                         /\ calls[p].seen = 0
                         /\ calls[p].pc = "idle"
                         /\ calls[p].res.kind = "ok"
    /\ nRuns = 2

----------------------------------------------------------------------------
(* Accounts, trading and valuation *)

\* C24: rates.json has one writer.  Its content is what was found at start or
\* what the most recent run_update left (what its save_rates wrote, when it
\* saved); neither trading nor portfolio valuation nor a module's initialisation
\* creates or changes it.
C24_SingleWriter ==
    IF upd = NoUpdate THEN rates_file \in TradeFiles ELSE rates_file = upd.file

\* the user register_user is to store, and the portfolio
Registered == UserRecord(GetNextUserId(out.users0), out.username, out.password, "salt")

\* C26: register_user with a username not yet stored returns (True, ...), appends
\* one user whose id is the largest stored id plus one (1 when none is stored) and
\* one empty portfolio of that id; login_user with a stored username and its
\* password succeeds.
C26_RegisterThenLogin ==
    /\ (out.op = "register" /\ ~Taken(out.users0, out.username)) =>
          /\ out.ok
          /\ users = Append(out.users0, Registered)
          /\ portfolios = Append(out.portfolios0,
                                 [user_id |-> Registered.user_id, wallets |-> NoWallets])
    /\ (out.op = "login"
          /\ \E i \in DOMAIN users :
                /\ users[i].username = out.username
                /\ users[i].hashed_password = HashPassword(out.password, users[i].salt)) =>
          /\ out.ok
          /\ current_user # NoUser

\* the wallets of the trading user before and after the last trade
Before == GetUserPortfolio(out.portfolios0, out.user0)
After == GetUserPortfolio(portfolios, out.user0)
Traded == out.op \in {"buy", "sell"}
Held(c) == IF c \in DOMAIN Before THEN Before[c] ELSE 0

\* the portfolios a trade of the signed amount d is to leave
Settled(d) ==
    SavePortfolio(out.portfolios0, out.user0,
        [c \in DOMAIN Before \cup {out.currency} |->
            IF c = out.currency THEN FAdd(Held(c), d) ELSE Before[c]])

\* C27: after any buy_currency and sell_currency calls every stored balance is
\* >= 0; a call that fails returns (False, message) and leaves the portfolios as
\* they were; a buy of x that succeeds adds x to the wallet of the currency, a
\* sell of x that succeeds takes x from it, and no other wallet changes.
C27_BalancesAndEffects ==
    /\ \A i \in DOMAIN portfolios : \A c \in DOMAIN portfolios[i].wallets :
          FLe(0, portfolios[i].wallets[c])
    /\ (Traded /\ ~out.ok) => portfolios = out.portfolios0
    /\ (out.op = "buy" /\ out.ok) => portfolios = Settled(out.amount)
    /\ (out.op = "sell" /\ out.ok) => portfolios = Settled(FSub(0, out.amount))

\* a trade that nothing but the rate could stop: a user logged in, a registered
\* currency, an amount > 0 and, for a sell, a wallet holding the amount
Valid ==
    /\ Traded
    /\ out.user0 # NoUser
    /\ GetCurrency(out.currency).found
    /\ FLt(0, out.amount)
    /\ out.op = "sell" => (out.currency \in DOMAIN Before /\ FLe(out.amount, Before[out.currency]))

\* C28: a trade does not depend on the rate.  A valid buy or sell completes and is
\* stored whether get_exchange_rate returns a rate, finds none or fails in its
\* refresh; the rate shows in the message only.
C28_TradeIgnoresRate ==
    Valid =>
        /\ out.ok
        /\ portfolios = Settled(IF out.op = "buy" THEN out.amount ELSE FSub(0, out.amount))

\* C30: once run_update has saved a fresh rate r for C_USD, get_total_value("USD")
\* counts a wallet of C at balance * r.
C30_ValuationUsesCache ==
    (out.op = "show" /\ out.ok /\ upd.saved /\ rates_file = upd.file
        /\ DOMAIN After = {"EUR"} /\ After["EUR"] # NaN
        /\ Key("EUR", "USD") \in DOMAIN upd.rates) =>
            out.total = Times(After["EUR"], upd.rates[Key("EUR", "USD")])

====
